---- MODULE Spec2Model ----
(***************************************************************************)
(* A model of the ETS2LA plugin host (ETS2LA/Plugin/plugin.py), of the     *)
(* CruiseControl plugin (plugins/CruiseControl/main.py), of the web        *)
(* server's lifecycle and plugin-call endpoints and of the helpers         *)
(* Autoplace, RunEvery and RunIn.                                          *)
(*                                                                         *)
(* Spec             everything, interleaved.                               *)
(* SpecRunner       PluginRunner.__init__ from the import of the plugin    *)
(*                  module on: ETS2LAPlugin.__init__ and the main loop.    *)
(* SpecMain         the same, from ETS2LAPlugin.__init__ on.               *)
(* SpecThreads      the three helper threads and the supervisor as the     *)
(*                  other end of their queues.                             *)
(* SpecPerformance  the main loop together with performance_thread.        *)
(* SpecCC           the CruiseControl plugin: UpdateSettings and           *)
(*                  plugin(data), one action per frame.                    *)
(* SpecWeb, SpecAutoplace, SpecTimers   the web server and the helpers.    *)
(***************************************************************************)
EXTENDS Integers, Sequences, FiniteSets, TLC

(***************************************************************************)
(* Bounds of the model.                                                    *)
(***************************************************************************)
\* requests the supervisor puts on each request queue
MaxRequests == 2
\* last value of the clock, in ticks
MaxTime == 5
\* iterations of the main loop
MaxRuns == 2
\* blocking supervisor calls (notify / ask / dialog) made by run()
MaxImmediate == 1
\* clock ticks per second
TicksPerSecond == 60

\* plugin.py:30, the class attribute fps_cap
fps_cap == 30

\* 1/self.fps_cap seconds (plugin.py:290), in ticks
FramePeriod == TicksPerSecond \div fps_cap

VARIABLES
    \* ---- the plugin process (ETS2LA/Plugin/plugin.py) ----
    cls,                         \* what the plugin class defines
    main_pc,                     \* position of the main thread
    log,                         \* logging.exception calls, in order
    imports_called,              \* self.imports() has been called
    hooks_called,                \* init hooks attempted, in order
    now,                         \* time.time(), in ticks
    start_time, end_time,        \* self.start_time, self.end_time
    wake_time,                   \* when time.sleep(time_to_sleep) may return
    data,                        \* the value run() returned in this iteration
    run_count,                   \* calls of run() so far
    imm_count,                   \* notify/ask/dialog calls so far
    imm_op,                      \* the call the main thread is blocked in
    performance,                 \* self.performance
    return_queue,
    settings_menu_queue, settings_menu_return_queue, sm_pc,
    frontend_queue, frontend_return_queue, fe_pc, fe_data,
    performance_queue, performance_return_queue, pf_pc,
    pf_local,                    \* performance_thread: last_30_seconds and the
                                 \* list its comprehension has built
    immediate_queue, immediate_return_queue,
    unfinished,                  \* JoinableQueue unfinished-task counters
    sent,                        \* requests the supervisor has put, per queue
    \* ---- the CruiseControl plugin (plugins/CruiseControl/main.py) ----
    cc_settings,                 \* the globals UpdateSettings reads from the settings
    cc,                          \* the globals UpdateSettings resets and plugin() updates
    cc_now,                      \* time.time(), in ticks
    cc_frames,                   \* calls of plugin(data) so far
    cc_in,                       \* the last call: the keys of its data, the
                                 \* userBrake it read, and whether it returned
                                 \* at lines 336 / 341
    cc_out,                      \* the last call: what it returned, and its locals
    \* ---- the web server (ETS2LA/networking/webserver.py) ----
    variables,                   \* the module variables: CLOSE and RESTART
    web_requests,                \* requests served so far
    web_reply,                   \* the last request: its endpoint and how it ended
    \* ---- helpers (src/helpers.py) ----
    lastRow,
    lastParent,
    defaultAutoplaceColumn,
    ap_calls,                    \* calls of Autoplace so far
    ap_ret,                      \* the last call of Autoplace: its arguments
                                 \* and the value it returned
    h_now,                       \* time.time(), in ticks
    runners,
    run_in,                      \* the thread RunIn has started
    run_every                    \* the thread RunEvery has started

hostVars == << cls, main_pc, log, imports_called, hooks_called, now, start_time,
               end_time, wake_time, data, run_count, imm_count, imm_op,
               performance, return_queue,
               settings_menu_queue, settings_menu_return_queue, sm_pc,
               frontend_queue, frontend_return_queue, fe_pc, fe_data,
               performance_queue, performance_return_queue, pf_pc, pf_local,
               immediate_queue, immediate_return_queue, unfinished, sent >>

ccVars == << cc_settings, cc, cc_now, cc_frames, cc_in, cc_out >>

webVars == << variables, web_requests, web_reply >>

apVars == << lastRow, lastParent, defaultAutoplaceColumn, ap_calls, ap_ret >>

tmVars == << h_now, runners, run_in, run_every >>

restVars == << webVars, apVars, tmVars >>

vars == << hostVars, ccVars, restVars >>

None == "None"
\* the None a run() returns, among the records it returns otherwise
NoData == [ none |-> TRUE ]
\* fe_data before the first frontend_queue.get()
NoMessage == [ id |-> 0, kind |-> "none" ]
\* the locals of performance_thread before its first request
NoSamples == [ last_30_seconds |-> 0, kept |-> << >> ]

(***************************************************************************)
(* The plugin class: what ensure_functions and __init__ look at.           *)
(***************************************************************************)
PluginClasses ==
    [ overrides_before : BOOLEAN, overrides_after : BOOLEAN,
      overrides_plugin : BOOLEAN, has_run : BOOLEAN, has_imports : BOOLEAN,
      named_Plugin : BOOLEAN, has_settings_menu : BOOLEAN ]

\* ensure_functions: the TypeError it raises, or None
ensure_functions_skips_name(c) ==
    IF c.overrides_before THEN "TypeError: 'before' is a reserved function name"
    ELSE IF c.overrides_after THEN "TypeError: 'after' is a reserved function name"
    ELSE IF c.overrides_plugin THEN "TypeError: 'plugin' is a reserved function name"
    ELSE IF ~c.has_run THEN "TypeError: Your plugin has to have a 'run' function."
    ELSE IF ~c.has_imports THEN "TypeError: Your plugin has to have an 'imports' function."
    ELSE None

ensure_functions(c) ==
    IF c.overrides_before THEN "TypeError: 'before' is a reserved function name"
    ELSE IF c.overrides_after THEN "TypeError: 'after' is a reserved function name"
    ELSE IF c.overrides_plugin THEN "TypeError: 'plugin' is a reserved function name"
    ELSE IF ~c.has_run THEN "TypeError: Your plugin has to have a 'run' function."
    ELSE IF ~c.has_imports THEN "TypeError: Your plugin has to have an 'imports' function."
    ELSE IF ~c.named_Plugin THEN "TypeError: Please make sure the class is named 'Plugin'"
    ELSE None

\* "settings_menu" in dir(type(self)) and self.settings_menu != None
has_menu(c) == c.has_settings_menu

(***************************************************************************)
(* Initial state: PluginRunner.__init__ has imported plugins.<name>.main,  *)
(* found the class Plugin and __new__ has stored the queues; __init__ is   *)
(* about to run.  No thread has been started.  (InitRunner is the state    *)
(* before that: PluginRunner.__init__ is about to import the module.)      *)
(***************************************************************************)
\* the queues are empty and the main loop has not run
InitIdle ==
    /\ log = << >>
    /\ now = 0
    /\ start_time = 0
    /\ end_time = 0
    /\ wake_time = 0
    /\ data = NoData
    /\ run_count = 0
    /\ imm_count = 0
    /\ imm_op = None
    /\ performance = << >>
    /\ return_queue = << >>
    /\ settings_menu_queue = << >>
    /\ settings_menu_return_queue = << >>
    /\ frontend_queue = << >>
    /\ frontend_return_queue = << >>
    /\ fe_data = NoMessage
    /\ performance_queue = << >>
    /\ performance_return_queue = << >>
    /\ pf_local = NoSamples
    /\ immediate_queue = << >>
    /\ immediate_return_queue = << >>
    /\ unfinished = [ q \in {"settings_menu", "frontend", "performance",
                             "immediate_return"} |-> 0 ]
    /\ sent = [ q \in {"settings_menu", "frontend", "performance"} |-> 0 ]

InitProcess ==
    /\ cls \in PluginClasses
    /\ imports_called = FALSE
    /\ hooks_called = << >>
    /\ sm_pc = "unstarted"
    /\ fe_pc = "unstarted"
    /\ pf_pc = "unstarted"
    /\ InitIdle

InitHost == InitProcess /\ main_pc = "ensure_functions"


loopVars == << start_time, end_time, wake_time, data, run_count, imm_count, imm_op,
               performance, return_queue >>
startVars == << cls, imports_called, hooks_called >>
smVars == << settings_menu_queue, settings_menu_return_queue, sm_pc >>
feVars == << frontend_queue, frontend_return_queue, fe_pc, fe_data >>
pfVars == << performance_queue, performance_return_queue, pf_pc, pf_local >>
immVars == << immediate_queue, immediate_return_queue >>

Max(a, b) == IF a >= b THEN a ELSE b
Min(a, b) == IF a <= b THEN a ELSE b

(***************************************************************************)
(* PluginRunner.__init__ and ETS2LAPlugin.__init__ up to the main loop.    *)
(* Any exception that leaves ETS2LAPlugin.__init__ is caught by the bare   *)
(* except of PluginRunner.__init__, logged, and the runner returns.        *)
(***************************************************************************)
RunnerCatches(exc) ==
    /\ log' = Append(log, [ message |-> "Error loading plugin", exc |-> exc ])
    /\ main_pc' = "returned"

\* PluginRunner.__init__, lines 336-350: importlib.import_module raises, or
\* the module has no attribute Plugin (an ImportError is raised), or the
\* class is instantiated and its __init__ begins
ImportModule(outcome) ==
    /\ main_pc = "import_module"
    /\ CASE outcome = "ImportError" -> RunnerCatches("ImportError in import_module")
         [] outcome = "no Plugin" -> RunnerCatches("ImportError: No class 'Plugin' found")
         [] OTHER -> main_pc' = "ensure_functions" /\ log' = log
    /\ UNCHANGED << ccVars, restVars, startVars, now, loopVars, smVars, feVars, pfVars, immVars,
                    unfinished, sent >>

\* self.ensure_functions(), the first statement of __init__
EnsureFunctions ==
    /\ main_pc = "ensure_functions"
    /\ IF ensure_functions(cls) # None
         THEN RunnerCatches(ensure_functions(cls))
         ELSE main_pc' = "load_modules" /\ log' = log
    /\ UNCHANGED << ccVars, restVars, startVars, now, loopVars, smVars, feVars, pfVars, immVars,
                    unfinished, sent >>

\* self.load_modules(); importing a module or Module(self) may raise
LoadModules(outcome) ==
    /\ main_pc = "load_modules"
    /\ IF outcome = "raise"
         THEN RunnerCatches("Exception in load_modules")
         ELSE main_pc' = "start_threads" /\ log' = log
    /\ UNCHANGED << ccVars, restVars, startVars, now, loopVars, smVars, feVars, pfVars, immVars,
                    unfinished, sent >>

\* the three threading.Thread(...).start() calls; settings_menu_thread
\* returns at once when the plugin has no settings menu
StartThreads ==
    /\ main_pc = "start_threads"
    /\ sm_pc' = IF has_menu(cls) THEN "get" ELSE "done"
    /\ fe_pc' = "get"
    /\ pf_pc' = "get"
    /\ main_pc' = "imports"
    /\ UNCHANGED << ccVars, restVars, startVars, log, now, loopVars, settings_menu_queue,
                    settings_menu_return_queue, frontend_queue,
                    frontend_return_queue, fe_data, performance_queue,
                    performance_return_queue, pf_local, immVars, unfinished, sent >>

\* self.imports()
Imports(outcome) ==
    /\ main_pc = "imports"
    /\ imports_called' = TRUE
    /\ IF outcome = "raise"
         THEN RunnerCatches("Exception in imports")
         ELSE main_pc' = "init" /\ log' = log
    /\ UNCHANGED << ccVars, restVars, cls, hooks_called, now, loopVars, smVars, feVars, pfVars,
                    immVars, unfinished, sent >>

HookNames == << "init", "initialize", "Initialize" >>
HookIndex(pc) == CHOOSE i \in 1..3 : HookNames[i] = pc

\* what a hook does: it returns ("ok"), it is absent or raises an
\* AttributeError ("AttributeError"), or it raises another Exception
HookOutcomes == { "ok", "AttributeError", "Exception" }

hook_logs_every_exception(l, name, outcome) ==
    IF outcome # "ok"
      THEN Append(l, [ message |-> "Error in hook " \o name,
                       exc |-> "Exception in hook" ])
      ELSE l

\* except Exception as ex: if type(ex) != AttributeError: logging.exception
hook_logs(l, name, outcome) ==
    IF outcome = "Exception"
      THEN Append(l, [ message |-> "Error in hook " \o name,
                       exc |-> "Exception in hook" ])
      ELSE l

\* try: self.init() / self.initialize() / self.Initialize(); except: log
\* unless the exception is an AttributeError (as when the hook is absent)
Hook(outcome) ==
    /\ main_pc \in { HookNames[i] : i \in 1..3 }
    /\ hooks_called' = Append(hooks_called, main_pc)
    /\ log' = hook_logs(log, main_pc, outcome)
    /\ main_pc' = IF HookIndex(main_pc) < 3
                    THEN HookNames[HookIndex(main_pc) + 1]
                    ELSE "before"
    /\ UNCHANGED << ccVars, restVars, cls, imports_called, now, loopVars, smVars, feVars, pfVars,
                    immVars, unfinished, sent >>

(***************************************************************************)
(* The main loop: while True: self.plugin()                                *)
(***************************************************************************)
\* self.before(), then run() is entered
MainBefore ==
    /\ main_pc = "before"
    /\ run_count < MaxRuns
    /\ start_time' = now
    /\ run_count' = run_count + 1
    /\ main_pc' = "run"
    /\ UNCHANGED << ccVars, restVars, startVars, log, now, end_time, wake_time, data, imm_count,
                    imm_op, performance, return_queue, smVars, feVars, pfVars,
                    immVars, unfinished, sent >>

\* run() calls self.notify / self.ask / self.dialog: the request is put and
\* the calling thread goes on to immediate_return_queue.get()
MainImmediatePut(op) ==
    /\ main_pc = "run"
    /\ imm_count < MaxImmediate
    /\ immediate_queue' = Append(immediate_queue, [operation |-> op])
    /\ imm_count' = imm_count + 1
    /\ imm_op' = op
    /\ main_pc' = "immediate_get"
    /\ UNCHANGED << ccVars, restVars, startVars, log, now, start_time, end_time, wake_time, data,
                    run_count, performance, return_queue, smVars, feVars,
                    pfVars, immediate_return_queue, unfinished, sent >>

\* what immediate_return_queue.get() does on an empty queue
immediate_get_nowait(q) == TRUE

immediate_get(q) == q # << >>

\* immediate_return_queue.get() returns; notify also calls task_done
MainImmediateGet ==
    /\ main_pc = "immediate_get"
    /\ immediate_get(immediate_return_queue)
    /\ immediate_return_queue' =
         IF immediate_return_queue = << >> THEN << >>
         ELSE Tail(immediate_return_queue)
    /\ unfinished' = IF imm_op = "notify"
                       THEN [unfinished EXCEPT !.immediate_return = @ - 1]
                       ELSE unfinished
    /\ imm_op' = None
    /\ main_pc' = "run"
    /\ UNCHANGED << ccVars, restVars, startVars, log, now, start_time, end_time, wake_time, data,
                    run_count, imm_count, performance, return_queue, smVars,
                    feVars, pfVars, immediate_queue, sent >>

\* run() returns a value, returns None, or raises
MainRunReturn(outcome) ==
    /\ main_pc = "run"
    /\ IF outcome = "raise"
         THEN RunnerCatches("Exception in run") /\ data' = data
         ELSE /\ data' = IF outcome = "None" THEN NoData ELSE [iter |-> run_count]
              /\ main_pc' = "after"
              /\ log' = log
    /\ UNCHANGED << ccVars, restVars, startVars, now, start_time, end_time, wake_time, run_count,
                    imm_count, imm_op, performance, return_queue, smVars,
                    feVars, pfVars, immVars, unfinished, sent >>

after_puts_none_too(q, d) == Append(q, d)

\* if data is not None: self.return_queue.put(data, block=True)
after_puts(q, d) == IF d # NoData THEN Append(q, d) ELSE q

\* after(): if data is not None: self.return_queue.put(data, block=True)
MainAfterPut ==
    /\ main_pc = "after"
    /\ return_queue' = after_puts(return_queue, data)
    /\ main_pc' = "end_time"
    /\ UNCHANGED << ccVars, restVars, startVars, log, now, start_time, end_time, wake_time, data,
                    run_count, imm_count, imm_op, performance, smVars, feVars,
                    pfVars, immVars, unfinished, sent >>

time_to_sleep_min(start, end) == Min(FramePeriod - (end - start), 0)

\* max(1/self.fps_cap - (self.end_time - self.start_time), 0)
time_to_sleep(start, end) == Max(FramePeriod - (end - start), 0)

\* after(): self.end_time = time.time(); time.sleep(time_to_sleep) begins
MainAfterSleep ==
    /\ main_pc = "end_time"
    /\ end_time' = now
    /\ wake_time' = now + time_to_sleep(start_time, now)
    /\ main_pc' = "sleep"
    /\ UNCHANGED << ccVars, restVars, startVars, log, now, start_time, data, run_count, imm_count,
                    imm_op, performance, return_queue, smVars, feVars, pfVars,
                    immVars, unfinished, sent >>

\* the sleep is over (it lasts at least time_to_sleep); after() appends
\* (start_time, time.time() - start_time) and plugin() returns
MainAfterAppend ==
    /\ main_pc = "sleep"
    /\ now >= wake_time
    /\ performance' = Append(performance, << start_time, now - start_time >>)
    /\ main_pc' = "before"
    /\ UNCHANGED << ccVars, restVars, startVars, log, now, start_time, end_time, wake_time, data,
                    run_count, imm_count, imm_op, return_queue, smVars, feVars,
                    pfVars, immVars, unfinished, sent >>

LoopStates == { "before", "run", "immediate_get", "after", "end_time", "sleep" }

\* time passes while the main loop runs
Tick ==
    /\ main_pc \in LoopStates
    /\ now < MaxTime
    /\ now' = now + 1
    /\ UNCHANGED << ccVars, restVars, startVars, main_pc, log, loopVars, smVars, feVars, pfVars,
                    immVars, unfinished, sent >>

(***************************************************************************)
(* The supervisor: the other end of the queues.  Replies stay on the       *)
(* *_return_queue they were put on, so each return queue is also the       *)
(* record of what was answered, in order.                                  *)
(***************************************************************************)
SupPutSettingsMenu ==
    /\ sent.settings_menu < MaxRequests
    /\ sent' = [sent EXCEPT !.settings_menu = @ + 1]
    /\ settings_menu_queue' = Append(settings_menu_queue, sent.settings_menu + 1)
    /\ unfinished' = [unfinished EXCEPT !.settings_menu = @ + 1]
    /\ UNCHANGED << ccVars, restVars, startVars, main_pc, log, now, loopVars,
                    settings_menu_return_queue, sm_pc, feVars, pfVars, immVars >>

\* what a frontend message asks for:
\*   "ok"         operation "function", the target returns
\*   "raise"      operation "function", the target raises
\*   "hang"       operation "function", the target never returns
\*   "missing"    operation "function", self has no such attribute
\*   "no_op"      the message has no key "operation"
\*   "unknown_op" an operation other than "function"
FrontendKinds == { "ok", "raise", "hang", "missing", "no_op", "unknown_op" }

SupPutFrontend(kind) ==
    /\ sent.frontend < MaxRequests
    /\ sent' = [sent EXCEPT !.frontend = @ + 1]
    /\ frontend_queue' = Append(frontend_queue,
                                [id |-> sent.frontend + 1, kind |-> kind])
    /\ unfinished' = [unfinished EXCEPT !.frontend = @ + 1]
    /\ UNCHANGED << ccVars, restVars, startVars, main_pc, log, now, loopVars, smVars,
                    frontend_return_queue, fe_pc, fe_data, pfVars, immVars >>

SupPutPerformance ==
    /\ sent.performance < MaxRequests
    /\ sent' = [sent EXCEPT !.performance = @ + 1]
    /\ performance_queue' = Append(performance_queue, sent.performance + 1)
    /\ unfinished' = [unfinished EXCEPT !.performance = @ + 1]
    /\ UNCHANGED << ccVars, restVars, startVars, main_pc, log, now, loopVars, smVars, feVars,
                    performance_return_queue, pf_pc, pf_local, immVars >>

\* the supervisor answers a notify / ask / dialog request; it need not
SupReplyImmediate ==
    /\ immediate_queue # << >>
    /\ immediate_queue' = Tail(immediate_queue)
    /\ immediate_return_queue' =
         Append(immediate_return_queue, [response |-> Head(immediate_queue).operation])
    /\ unfinished' = [unfinished EXCEPT !.immediate_return = @ + 1]
    /\ UNCHANGED << ccVars, restVars, startVars, main_pc, log, now, loopVars, smVars, feVars,
                    pfVars, sent >>

(***************************************************************************)
(* settings_menu_thread                                                    *)
(***************************************************************************)
\* get(), task_done(), put(self.settings_menu.render()): render() returns
\* or raises; nothing catches, so an exception ends the thread
SettingsMenuStep(outcome) ==
    /\ sm_pc = "get"
    /\ settings_menu_queue # << >>
    /\ settings_menu_queue' = Tail(settings_menu_queue)
    /\ unfinished' = [unfinished EXCEPT !.settings_menu = @ - 1]
    /\ IF outcome = "raise"
         THEN /\ sm_pc' = "dead"
              /\ settings_menu_return_queue' = settings_menu_return_queue
         ELSE /\ sm_pc' = "get"
              /\ settings_menu_return_queue' =
                   Append(settings_menu_return_queue,
                          [render |-> Head(settings_menu_queue)])
    /\ UNCHANGED << ccVars, restVars, startVars, main_pc, log, now, loopVars, feVars, pfVars,
                    immVars, sent >>

(***************************************************************************)
(* frontend_thread                                                         *)
(***************************************************************************)
frontend_call_uncaught(kind) ==
    CASE kind = "hang" -> "hung"
      [] kind \in { "raise", "missing", "no_op" } -> "dead"
      [] OTHER -> "task_done"

\* the try block and its bare except: where the thread is afterwards.
\* KeyError (no "operation"), AttributeError (no such target) and whatever
\* the target raises are all swallowed; a call that never returns is not.
frontend_call(kind) ==
    CASE kind = "hang" -> "hung"
      [] OTHER -> "task_done"

\* data = self.frontend_queue.get(), then the try block
FrontendGet ==
    /\ fe_pc = "get"
    /\ frontend_queue # << >>
    /\ fe_data' = Head(frontend_queue)
    /\ frontend_queue' = Tail(frontend_queue)
    /\ fe_pc' = frontend_call(Head(frontend_queue).kind)
    /\ UNCHANGED << ccVars, restVars, startVars, main_pc, log, now, loopVars, smVars,
                    frontend_return_queue, pfVars, immVars, unfinished, sent >>

\* self.frontend_queue.task_done()
FrontendTaskDone ==
    /\ fe_pc = "task_done"
    /\ unfinished' = [unfinished EXCEPT !.frontend = @ - 1]
    /\ fe_pc' = "put"
    /\ UNCHANGED << ccVars, restVars, startVars, main_pc, log, now, loopVars, smVars,
                    frontend_queue, frontend_return_queue, fe_data, pfVars,
                    immVars, sent >>

\* self.frontend_return_queue.put(None)
FrontendPut ==
    /\ fe_pc = "put"
    /\ frontend_return_queue' = Append(frontend_return_queue, None)
    /\ fe_pc' = "get"
    /\ UNCHANGED << ccVars, restVars, startVars, main_pc, log, now, loopVars, smVars,
                    frontend_queue, fe_data, pfVars, immVars, unfinished, sent >>

(***************************************************************************)
(* performance_thread                                                      *)
(***************************************************************************)
\* plugin.py:241, the window of the performance samples, in seconds
PerformanceWindow == 30

RECURSIVE SelectSamples(_, _)
\* [x for x in self.performance if x[0] > last_30_seconds]
SelectSamples(samples, limit) ==
    IF samples = << >> THEN << >>
    ELSE IF Head(samples)[1] > limit
           THEN << Head(samples) >> \o SelectSamples(Tail(samples), limit)
           ELSE SelectSamples(Tail(samples), limit)

\* the window, in ticks
WindowTicks == PerformanceWindow * TicksPerSecond

\* where performance_thread is while it handles a request
PerformanceLoop == { "get", "store", "put" }

\* lines 239-242, up to the assignment: get() returns, last_30_seconds is
\* computed and the comprehension builds the new list from self.performance
PerformanceFilter ==
    /\ pf_pc = "get"
    /\ performance_queue # << >>
    /\ performance_queue' = Tail(performance_queue)
    /\ pf_local' = [ last_30_seconds |-> now - WindowTicks,
                     kept |-> SelectSamples(performance, now - WindowTicks) ]
    /\ pf_pc' = "store"
    /\ UNCHANGED << ccVars, restVars, startVars, main_pc, log, now, loopVars, smVars, feVars,
                    performance_return_queue, immVars, unfinished, sent >>

\* line 242, the assignment, and line 244: self.performance becomes the new
\* list.  What the main thread has appended to the old list since the
\* comprehension read it (or appends to it later through a reference it
\* loaded before this assignment) is not in the new list.
PerformanceStore ==
    /\ pf_pc = "store"
    /\ performance' = pf_local.kept
    /\ unfinished' = [unfinished EXCEPT !.performance = @ - 1]
    /\ pf_pc' = "put"
    /\ UNCHANGED << ccVars, restVars, startVars, main_pc, log, now, start_time, end_time,
                    wake_time, data, run_count, imm_count, imm_op, return_queue,
                    smVars, feVars, performance_queue, performance_return_queue,
                    pf_local, immVars, sent >>

\* line 245: self.performance_return_queue.put(self.performance)
PerformancePut ==
    /\ pf_pc = "put"
    /\ performance_return_queue' = Append(performance_return_queue, performance)
    /\ pf_pc' = "get"
    /\ UNCHANGED << ccVars, restVars, startVars, main_pc, log, now, loopVars, smVars, feVars,
                    performance_queue, pf_local, immVars, unfinished, sent >>

\* the window, or a tick less
PauseLengths == { WindowTicks - 1, WindowTicks }

\* run(), a put or the sleep of the main loop takes the time d
Pause(d) ==
    /\ main_pc \in LoopStates
    /\ now <= MaxTime
    /\ now' = now + d
    /\ UNCHANGED << ccVars, restVars, startVars, main_pc, log, loopVars, smVars, feVars, pfVars,
                    immVars, unfinished, sent >>


(***************************************************************************)
(* plugins/CruiseControl/main.py                                           *)
(*                                                                         *)
(* Speeds are in tenths of km/h, pedal positions and strengths in          *)
(* hundredths, times in ticks.                                             *)
(***************************************************************************)
\* round(v * 3.6, 1) for a speed of v m/s (v an integer), in tenths of km/h
Kmh(v) == v * 36
\* x km/h in tenths of km/h
Tenths(x) == x * 10
\* x seconds, in ticks
Seconds(x) == x * TicksPerSecond
HalfSecond == TicksPerSecond \div 2

\* UpdateSettings: cruisespeed_turn = 30, cruisespeed_trafficlight = 0
cruisespeed_turn == Tenths(30)
cruisespeed_trafficlight == Tenths(0)

\* UpdateSettings: the values it gives the globals that plugin() updates
ResetGlobals ==
    [ wait_for_response |-> FALSE, wait_for_response_timer |-> 0,
      last_hazard_light |-> FALSE, need_to_disable_hazard_light |-> FALSE,
      wait_for_response_hazard_light |-> FALSE,
      wait_for_response_hazard_light_timer |-> 0,
      last_speed |-> 0, last_speedlimit |-> 0, last_cruisecontrolspeed |-> 0,
      trafficlight_last_time_without |-> 0, trafficlight_last_time_with |-> 0,
      turnincoming_last_time_with |-> 0,
      trafficlight_allow_acceleration |-> FALSE,
      user_emergency_braking |-> FALSE, user_emergency_braking_timer |-> 0,
      lanedetected_timer |-> 0, do_lanedetected_stop |-> FALSE,
      last_do_lanedetected_stop |-> FALSE, last_lanedetected |-> FALSE ]

\* data["sdk"][k] = v
SetKey(f, k, v) == [ x \in (DOMAIN f) \cup { k } |-> IF x = k THEN v ELSE f[x] ]

\* the globals the control step reads, as they are when line 265 is reached
NotAtControl ==
    [ wait_for_response |-> FALSE, user_emergency_braking |-> FALSE,
      trafficlight_allow_acceleration |-> FALSE, do_lanedetected_stop |-> FALSE ]

\* the local variables of plugin(), before they are assigned, and the data
\* dictionary (its keys and data["sdk"])
Unassigned ==
    [ speed |-> 0, speedlimit |-> 0, cruisecontrolspeed |-> 0,
      user_accelerating |-> FALSE, user_throttle |-> 0, user_braking |-> FALSE,
      hazard_light |-> FALSE, gamepaused |-> FALSE, targetspeed |-> 0,
      trafficlight |-> "", lanedetected |-> FALSE, steering |-> FALSE,
      at_control |-> NotAtControl,
      keys |-> { }, sdk |-> << >> ]

\* lines 182-213: the telemetry, or the fallback values of the except branch;
\* s holds the globals and the locals
ReadTelemetry(s, d) ==
    IF d.has_api
      THEN LET speed == Kmh(d.speed)
               speedlimit == Kmh(d.speedLimit)
           IN  [ s EXCEPT
                   !.user_emergency_braking =
                       IF d.userBrake > 90 /\ speed > Tenths(30) /\ d.steering
                         THEN TRUE
                         ELSE IF speed > Tenths(5) /\ speed > s.last_speed
                                THEN FALSE ELSE @,
                   !.last_speed = speed,
                   !.last_speedlimit =
                       IF speedlimit # 0 /\ speedlimit > 0 THEN speedlimit ELSE @,
                   !.speed = speed,
                   !.speedlimit = speedlimit,
                   !.cruisecontrolspeed = Kmh(d.cruiseControlSpeed),
                   !.user_accelerating = d.userThrottle > 10,
                   !.user_throttle = d.userThrottle,
                   !.user_braking = d.userBrake > 10,
                   !.hazard_light = d.lightsHazard,
                   !.gamepaused = d.pause ]
      ELSE [ s EXCEPT
               !.user_emergency_braking = FALSE,
               !.speed = s.last_speed,
               !.speedlimit = s.last_speedlimit,
               !.cruisecontrolspeed = 0,
               !.user_accelerating = FALSE,
               !.user_throttle = 0,
               !.user_braking = FALSE,
               !.hazard_light = FALSE,
               !.gamepaused = FALSE ]

\* lines 215-221
TargetSpeed(s) ==
    [ s EXCEPT !.targetspeed =
                 IF s.speedlimit # 0 /\ s.speedlimit > 0 THEN s.speedlimit
                 ELSE IF s.last_speedlimit # 0 /\ s.last_speedlimit > 0
                        THEN s.last_speedlimit
                        ELSE Tenths(30) ]

\* lines 223-229: what TrafficLightDetection reports
ReadTrafficLight(s, d, st) ==
    [ s EXCEPT !.trafficlight =
                 IF st.trafficlightdetectionisenabled
                   THEN IF d.trafficlight = "missing" THEN "---"
                        ELSE d.trafficlight
                   ELSE "Off" ]

\* lines 230-237: what NavigationDetection reports
ReadNavigation(s, d, st, t) ==
    IF st.navigationdetectionisenabled /\ d.has_nav
      THEN [ s EXCEPT
               !.turnincoming_last_time_with = IF d.turnincoming THEN t ELSE @,
               !.lanedetected_timer = IF d.lanedetected THEN t ELSE @ ]
      ELSE s

\* lines 238-239
TurnSpeed(s, t) ==
    IF t - Seconds(1) < s.turnincoming_last_time_with
      THEN [ s EXCEPT !.targetspeed = cruisespeed_turn ]
      ELSE s

\* lines 240-243
LaneDetected(s, t) ==
    [ s EXCEPT !.lanedetected = t - Seconds(1) < s.lanedetected_timer ]

\* lines 223-243: the traffic light and the navigation detection
Detections(s, d, st, t) ==
    LaneDetected(TurnSpeed(ReadNavigation(ReadTrafficLight(s, d, st), d, st, t), t), t)

\* lines 245-248
TrafficLightTimes(s, t) ==
    IF s.trafficlight # "Red"
      THEN [ s EXCEPT !.trafficlight_last_time_without = t ]
      ELSE [ s EXCEPT !.trafficlight_last_time_with = t ]

\* lines 249-251
TrafficLightSpeed(s, st, t) ==
    IF /\ \/ t - HalfSecond > s.trafficlight_last_time_without
          \/ t - HalfSecond < s.trafficlight_last_time_with
       /\ st.stop_trafficlight
      THEN [ s EXCEPT !.targetspeed = cruisespeed_trafficlight ]
      ELSE s

\* lines 253-254
AllowAcceleration(s) ==
    IF s.targetspeed = 0 /\ s.speed > Tenths(10)
      THEN [ s EXCEPT !.trafficlight_allow_acceleration = TRUE ]
      ELSE s

\* lines 245-254
TrafficLight(s, st, t) ==
    AllowAcceleration(TrafficLightSpeed(TrafficLightTimes(s, t), st, t))

\* lines 256-257
ResponseTimedOut(s, t) ==
    IF t - Seconds(1) > s.wait_for_response_timer /\ s.wait_for_response
      THEN [ s EXCEPT !.wait_for_response = FALSE ]
      ELSE s

\* lines 258-259
ResponseSeen(s) ==
    IF s.last_cruisecontrolspeed # s.cruisecontrolspeed
      THEN [ s EXCEPT !.wait_for_response = FALSE ]
      ELSE s

\* lines 256-259
ResponseTimeout(s, t) == ResponseSeen(ResponseTimedOut(s, t))

\* lines 261-264: try: data["sdk"] except: data["sdk"] = {}
EnsureSdk(s) ==
    IF "sdk" \in s.keys THEN s
    ELSE [ s EXCEPT !.keys = @ \cup { "sdk" }, !.sdk = << >> ]

\* line 265 is reached: the globals as the control step finds them
EnterControl(s) ==
    [ s EXCEPT !.at_control = [ k \in DOMAIN NotAtControl |-> s[k] ] ]

EnableCruiseControl_while_waiting(s, st, t) ==
    IF /\ s.speed > Tenths(30) /\ s.cruisecontrolspeed = 0
       /\ st.auto_enable /\ s.targetspeed # 0
      THEN [ s EXCEPT
               !.sdk = SetKey(SetKey(@, "CruiseControl", TRUE), "acceleration", 0),
               !.wait_for_response = TRUE,
               !.wait_for_response_timer = t,
               !.trafficlight_allow_acceleration = FALSE ]
      ELSE s

\* lines 266-271
EnableCruiseControl(s, st, t) ==
    IF /\ s.speed > Tenths(30) /\ s.cruisecontrolspeed = 0
       /\ st.auto_enable /\ ~s.wait_for_response /\ s.targetspeed # 0
      THEN [ s EXCEPT
               !.sdk = SetKey(SetKey(@, "CruiseControl", TRUE), "acceleration", 0),
               !.wait_for_response = TRUE,
               !.wait_for_response_timer = t,
               !.trafficlight_allow_acceleration = FALSE ]
      ELSE s

\* lines 272-275
IncreaseCruiseControl(s, t) ==
    IF /\ s.cruisecontrolspeed # 0 /\ s.cruisecontrolspeed < s.targetspeed
       /\ ~s.wait_for_response /\ s.targetspeed # 0
      THEN [ s EXCEPT
               !.sdk = SetKey(@, "CruiseControlIncrease", TRUE),
               !.wait_for_response = TRUE,
               !.wait_for_response_timer = t ]
      ELSE s

\* lines 276-279
DecreaseCruiseControl(s, t) ==
    IF /\ s.cruisecontrolspeed # 0 /\ s.cruisecontrolspeed > s.targetspeed
       /\ ~s.wait_for_response /\ s.targetspeed # 0
      THEN [ s EXCEPT
               !.sdk = SetKey(@, "CruiseControlDecrease", TRUE),
               !.wait_for_response = TRUE,
               !.wait_for_response_timer = t ]
      ELSE s

\* lines 281-284 and 290-293: accelerate with the configured strength
Accelerate(s, st) ==
    [ s EXCEPT
        !.sdk = SetKey(SetKey(@, "acceleration", st.acceleration_strength),
                       "brake", 0),
        !.user_accelerating =
            IF s.user_throttle = st.acceleration_strength THEN FALSE ELSE @ ]

\* lines 280-284
AccelerateAfterTrafficLight(s, st) ==
    IF /\ s.speed < Tenths(30) /\ s.cruisecontrolspeed = 0
       /\ s.targetspeed # 0 /\ st.trafficlight_accelerate
       /\ s.trafficlight_allow_acceleration
       /\ ~s.user_emergency_braking /\ ~s.do_lanedetected_stop
      THEN Accelerate(s, st)
      ELSE s

\* lines 285-288
BrakeToStop(s, st, t) ==
    IF s.targetspeed = 0 /\ s.speed > Tenths(1) /\ ~s.user_accelerating
      THEN [ s EXCEPT
               !.sdk = SetKey(SetKey(@, "acceleration", 0),
                              "brake", st.brake_strength),
               !.user_emergency_braking_timer = t ]
      ELSE s

AutoAccelerate_while_braking(s, st) ==
    IF /\ s.speed < Tenths(30) /\ s.cruisecontrolspeed = 0
       /\ s.targetspeed # 0 /\ st.auto_accelerate
       /\ ~s.do_lanedetected_stop
      THEN Accelerate(s, st)
      ELSE s

\* lines 289-293
AutoAccelerate(s, st) ==
    IF /\ s.speed < Tenths(30) /\ s.cruisecontrolspeed = 0
       /\ s.targetspeed # 0 /\ st.auto_accelerate
       /\ ~s.user_emergency_braking /\ ~s.do_lanedetected_stop
      THEN Accelerate(s, st)
      ELSE s

\* lines 266-293: the six ifs, in their order
Drive(s, st, t) ==
    AutoAccelerate(
      BrakeToStop(
        AccelerateAfterTrafficLight(
          DecreaseCruiseControl(
            IncreaseCruiseControl(EnableCruiseControl(s, st, t), t), t),
          st),
        st, t),
      st)

\* lines 265-296: the commands written to data["sdk"]
Control(s, d, st, t) ==
    IF ~s.gamepaused /\ d.steering
      THEN Drive(s, st, t)
      ELSE [ s EXCEPT !.sdk = SetKey(SetKey(@, "acceleration", 0), "brake", 0) ]

\* lines 299-300
EmergencyBrakingOver(s, t) ==
    IF t - Seconds(1) < s.user_emergency_braking_timer
      THEN [ s EXCEPT !.user_emergency_braking = FALSE ]
      ELSE s

\* lines 301-302
HazardResponse(s, t) ==
    IF \/ s.hazard_light # s.last_hazard_light
       \/ t - Seconds(1) > s.wait_for_response_hazard_light_timer
      THEN [ s EXCEPT !.wait_for_response_hazard_light = FALSE ]
      ELSE s

\* lines 303-304
HazardSwitchedOff(s) ==
    IF s.hazard_light # s.last_hazard_light /\ ~s.hazard_light
      THEN [ s EXCEPT !.need_to_disable_hazard_light = FALSE ]
      ELSE s

\* lines 305-309: the hazard light should go on; nothing is written to the sdk
HazardOn(s, t) ==
    IF /\ s.user_emergency_braking /\ ~s.hazard_light
       /\ ~s.wait_for_response_hazard_light
      THEN [ s EXCEPT
               !.wait_for_response_hazard_light = TRUE,
               !.wait_for_response_hazard_light_timer = t,
               !.need_to_disable_hazard_light = TRUE ]
      ELSE s

\* lines 310-313: the hazard light should go off; nothing is written to the sdk
HazardOff(s, t) ==
    IF /\ ~s.user_emergency_braking /\ s.hazard_light
       /\ ~s.wait_for_response_hazard_light
       /\ s.need_to_disable_hazard_light
      THEN [ s EXCEPT
               !.wait_for_response_hazard_light = TRUE,
               !.wait_for_response_hazard_light_timer = t ]
      ELSE s

\* lines 298-313: the hazard-light bookkeeping
AutoHazard(s, st, t) ==
    IF st.auto_hazard
      THEN HazardOff(HazardOn(HazardSwitchedOff(
               HazardResponse(EmergencyBrakingOver(s, t), t)), t), t)
      ELSE s

\* lines 316-317
LaneLost(s, d) ==
    IF /\ ~s.gamepaused /\ d.steering /\ ~s.lanedetected
       /\ s.last_lanedetected /\ ~s.user_accelerating
      THEN [ s EXCEPT !.do_lanedetected_stop = TRUE ]
      ELSE s

\* lines 318-319
LaneStopCancelled(s) ==
    IF s.user_accelerating
      THEN [ s EXCEPT !.do_lanedetected_stop = FALSE ]
      ELSE s

\* lines 320-322: data["sdk"]["brake"] = 0.1
LaneStopBrake(s) ==
    IF s.do_lanedetected_stop /\ s.speed > Tenths(1)
      THEN [ s EXCEPT !.sdk = SetKey(@, "brake", 10) ]
      ELSE s

\* lines 320, 323-326: nothing is written to the sdk
LaneStopHazardOn(s, t) ==
    IF /\ s.do_lanedetected_stop /\ ~s.hazard_light
       /\ ~s.wait_for_response_hazard_light
      THEN [ s EXCEPT
               !.wait_for_response_hazard_light = TRUE,
               !.wait_for_response_hazard_light_timer = t ]
      ELSE s

\* lines 327-330: nothing is written to the sdk
LaneStopHazardOff(s, t) ==
    IF /\ ~s.do_lanedetected_stop /\ s.last_do_lanedetected_stop
       /\ s.hazard_light
      THEN [ s EXCEPT
               !.wait_for_response_hazard_light = TRUE,
               !.wait_for_response_hazard_light_timer = t ]
      ELSE s

\* lines 315-330: the stop when the lane is lost
AutoStop(s, d, st, t) ==
    IF st.auto_stop
      THEN LaneStopHazardOff(LaneStopHazardOn(LaneStopBrake(
               LaneStopCancelled(LaneLost(s, d))), t), t)
      ELSE s

\* lines 332-341: with show_symbols, a call whose data has no frame, or a
\* frame without a shape, returns here
ReturnsEarly(d, st) ==
    st.show_symbols /\ d.frame \in { "missing", "no shape" }

\* lines 444-447
RememberLast(s) ==
    [ s EXCEPT !.last_lanedetected = s.lanedetected,
               !.last_do_lanedetected_stop = s.do_lanedetected_stop,
               !.last_hazard_light = s.hazard_light,
               !.last_cruisecontrolspeed = s.cruisecontrolspeed ]

\* the keys of the data dictionary a call is given
DataKeys(d) ==
    (IF d.has_api THEN { "api" } ELSE { })
    \cup (IF d.trafficlight # "missing" THEN { "TrafficLightDetection" } ELSE { })
    \cup (IF d.has_nav THEN { "NavigationDetection" } ELSE { })
    \cup (IF d.frame # "missing" THEN { "frame" } ELSE { })
    \cup (IF d.has_sdk THEN { "sdk" } ELSE { })

return_none(s) == [ value |-> "None", keys |-> { }, sdk |-> << >> ]

\* return data: the dictionary passed in, as the call has left it
return_data(s) == [ value |-> "data", keys |-> s.keys, sdk |-> s.sdk ]

\* the local variables a call leaves behind that the claims speak about;
\* steering is DefaultSteering.enabled as the call read it
LocalNames ==
    { "speed", "targetspeed", "cruisecontrolspeed", "user_accelerating",
      "user_throttle", "gamepaused", "trafficlight", "lanedetected",
      "hazard_light", "steering", "at_control" }

\* lines 180-330: plugin(data) up to the drawing
Decide(s, d, st, t) ==
    AutoStop(
      AutoHazard(
        Control(
          EnterControl(
            EnsureSdk(
              ResponseTimeout(
                TrafficLight(
                  Detections(TargetSpeed(ReadTelemetry(s, d)), d, st, t),
                  st, t),
                t))),
          d, st, t),
        st, t),
      d, st, t)

\* lines 332-448: the early returns, or the drawing and lines 444-447
Finish(s, d, st) ==
    IF ReturnsEarly(d, st) THEN s ELSE RememberLast(s)

\* what a call that ends with the globals and locals s leaves behind
Outcome(s, d, st) ==
    [ globals |-> [ k \in DOMAIN ResetGlobals |-> s[k] ],
      locals |-> [ k \in LocalNames |-> s[k] ],
      early |-> ReturnsEarly(d, st),
      ret |-> return_data(s) ]

\* plugin(data) at time t with the globals g and the settings st: the globals
\* it leaves, its locals and the value it returns
plugin(g, d, st, t) ==
    Outcome(Finish(Decide([ (g @@ Unassigned) EXCEPT !.keys = DataKeys(d),
                                                     !.steering = d.steering ],
                          d, st, t),
                   d, st),
            d, st)

(***************************************************************************)
(* The settings and the frames the CruiseControl model is run on: every    *)
(* choice that differs from the defaults, respectively from an ordinary    *)
(* frame, in a bounded number of places.                                   *)
(***************************************************************************)
\* settings that differ from the defaults
MaxSettingsChanged == 1
\* fields in which a frame differs from BaseFrame
MaxFrameChanged == 1
\* calls of plugin(data)
MaxFrames == 3

\* settings.GetSettings("CruiseControl", "acceleration", 50), line 106
DefaultAcceleration == 50
\* settings.GetSettings("CruiseControl", "brake", 100), line 108
DefaultBrake == 100

\* lines 79-109: the defaults of GetSettings, with TrafficLightDetection and
\* NavigationDetection among the enabled plugins; strengths are x/100 in
\* hundredths
DefaultSettings ==
    [ trafficlightdetectionisenabled |-> TRUE,
      navigationdetectionisenabled |-> TRUE,
      auto_enable |-> TRUE, stop_trafficlight |-> TRUE,
      trafficlight_accelerate |-> TRUE, auto_accelerate |-> FALSE,
      auto_hazard |-> TRUE, auto_stop |-> FALSE, show_symbols |-> TRUE,
      acceleration_strength |-> DefaultAcceleration,
      brake_strength |-> DefaultBrake ]

Switches == (DOMAIN DefaultSettings) \ { "acceleration_strength", "brake_strength" }

RECURSIVE SettingsWithin(_)
SettingsWithin(n) ==
    IF n = 0 THEN { DefaultSettings }
    ELSE LET S == SettingsWithin(n - 1)
         IN  S \cup { [ st EXCEPT ![f] = ~@ ] : st \in S, f \in Switches }

SettingsChoices == SettingsWithin(MaxSettingsChanged)

\* an ordinary frame: 9 m/s (32.4 km/h) under a limit of 25 m/s (90 km/h),
\* cruise control off, no pedal, steering enabled, green light, lane
\* detected, an image to draw on, no "sdk" key yet
BaseFrame ==
    [ has_api |-> TRUE, speed |-> 9, speedLimit |-> 25, cruiseControlSpeed |-> 0,
      userThrottle |-> 0, userBrake |-> 0, lightsHazard |-> FALSE,
      pause |-> FALSE, steering |-> TRUE, trafficlight |-> "Green",
      has_nav |-> TRUE, turnincoming |-> FALSE, lanedetected |-> TRUE,
      frame |-> "image", has_sdk |-> FALSE ]

\* the other values of each field
FrameChanges ==
      { << "has_api", FALSE >>, << "speedLimit", 0 >>,
        << "lightsHazard", TRUE >>, << "pause", TRUE >>,
        << "steering", FALSE >>, << "has_nav", FALSE >>,
        << "turnincoming", TRUE >>, << "lanedetected", FALSE >>,
        << "has_sdk", TRUE >>, << "userBrake", 100 >> }
    \cup { << "speed", v >> : v \in { 0, 2, 5 } }
    \cup { << "cruiseControlSpeed", v >> : v \in { 20, 30 } }
    \cup { << "userThrottle", v >> : v \in { 50, 100 } }
    \cup { << "trafficlight", v >> : v \in { "Red", "missing" } }
    \cup { << "frame", v >> : v \in { "missing", "no shape" } }

\* the time between two calls: a tick, or just over half a second or a second
FrameGaps == { 1, HalfSecond + 1, Seconds(1) + 1 }

RECURSIVE FramesWithin(_)
FramesWithin(n) ==
    IF n = 0 THEN { BaseFrame }
    ELSE LET S == FramesWithin(n - 1)
         IN  S \cup { [ d EXCEPT ![c[1]] = c[2] ] : d \in S, c \in FrameChanges }

\* a red light met at 2 m/s (7.2 km/h) or 5 m/s (18 km/h)
RedLightApproaches ==
    { [ BaseFrame EXCEPT !.trafficlight = "Red", !.speed = v ] : v \in { 2, 5 } }

FrameChoices == FramesWithin(MaxFrameChanged) \cup RedLightApproaches

\* time.time() when the plugin is enabled
StartTime == 2 * TicksPerSecond

NoReturn == [ value |-> "nothing", keys |-> { }, sdk |-> << >> ]
NoLocals == [ k \in LocalNames |-> Unassigned[k] ]

\* onEnable() has called UpdateSettings(); plugin() has not been called
InitCC ==
    /\ cc_settings \in SettingsChoices
    /\ cc = ResetGlobals
    /\ cc_now = StartTime
    /\ cc_frames = 0
    /\ cc_in = [ keys |-> { }, early |-> FALSE, userBrake |-> 0 ]
    /\ cc_out = [ ret |-> NoReturn, locals |-> NoLocals ]

\* UpdateSettings(), called by the settings panel: the settings are read
\* again and the globals reset (here: before the first frame)
UpdateSettings(st) ==
    /\ cc_frames = 0
    /\ cc_settings' = st
    /\ cc' = ResetGlobals
    /\ UNCHANGED << hostVars, restVars, cc_now, cc_frames, cc_in, cc_out >>

\* the main loop calls plugin(data), dt after the last call
Frame(d, dt) ==
    /\ cc_frames < MaxFrames
    /\ cc_frames' = cc_frames + 1
    /\ cc_now' = cc_now + dt
    /\ LET r == plugin(cc, d, cc_settings, cc_now')
       IN  /\ cc' = r.globals
           /\ cc_in' = [ keys |-> DataKeys(d), early |-> r.early,
                         userBrake |-> IF d.has_api THEN d.userBrake ELSE 0 ]
           /\ cc_out' = [ ret |-> r.ret, locals |-> r.locals ]
    /\ UNCHANGED << hostVars, restVars, cc_settings >>

(***************************************************************************)
(* ETS2LA/networking/webserver.py                                          *)
(*                                                                         *)
(* A Python value is a record of its type and its repr.                    *)
(***************************************************************************)
\* requests served
MaxWebRequests == 3

PyValue(type, repr) == [ type |-> type, repr |-> repr ]

PyNone == PyValue("NoneType", "None")
PyFalse == PyValue("bool", "False")

\* what backend.CallPluginFunction may return
ReturnValues ==
    { PyNone, PyFalse, PyValue("bool", "True"),
      PyValue("int", "0"), PyValue("int", "1"),
      PyValue("float", "0.0"), PyValue("float", "0.5"),
      PyValue("str", "''"), PyValue("str", "'ok'"),
      PyValue("list", "[]"), PyValue("list", "[1]"),
      PyValue("dict", "{}") }

\* x == False: bool is a subclass of int, and numbers compare by value
PyEqFalse(x) ==
    \/ x = PyFalse
    \/ x.type \in { "int", "float" } /\ x.repr \in { "0", "0.0" }

\* x == None
PyEqNone(x) == x = PyNone

StatusOk == PyValue("dict", "{'status': 'ok'}")

NoReply == [ endpoint |-> "none", ends |-> "none", value |-> PyNone,
             returnData |-> PyNone ]

Reply(endpoint, ends, value, returnData) ==
    [ endpoint |-> endpoint, ends |-> ends, value |-> value,
      returnData |-> returnData ]

\* the web server is running; no request has been served and neither flag
\* has been raised
InitWeb ==
    /\ variables = [ CLOSE |-> FALSE, RESTART |-> FALSE ]
    /\ web_requests = 0
    /\ web_reply = NoReply

Served ==
    /\ web_requests < MaxWebRequests
    /\ web_requests' = web_requests + 1
    /\ UNCHANGED << hostVars, ccVars, apVars, tmVars >>

quitApp_drops_restart(v) == [ CLOSE |-> TRUE, RESTART |-> FALSE ]

\* line 43: variables.CLOSE = True
quitApp_sets(v) == [ v EXCEPT !.CLOSE = TRUE ]

\* GET /api/quit
quitApp ==
    /\ Served
    /\ variables' = quitApp_sets(variables)
    /\ web_reply' = Reply("quitApp", "return", StatusOk, PyNone)

\* GET /api/restart
restartApp ==
    /\ Served
    /\ variables' = [ variables EXCEPT !.RESTART = TRUE ]
    /\ web_reply' = Reply("restartApp", "return", StatusOk, PyNone)

\* the endpoints that do not touch the module variables
OtherEndpoints ==
    { "read_root", "get_frametimes", "get_plugins", "enable_plugin",
      "disable_plugin", "set_plugin_setting", "set_plugin_settings",
      "get_plugin_setting", "get_plugin_settings", "change_control",
      "get_git_history", "get_IP" }

OtherEndpoint(name) ==
    /\ Served
    /\ web_reply' = Reply(name, "return", PyNone, PyNone)
    /\ UNCHANGED variables

\* lines 133-138: what the endpoint does with the returnData of the backend
call_result(returnData) ==
    IF PyEqFalse(returnData) \/ PyEqNone(returnData)
      THEN Reply("call_plugin_function", "raise",
                 PyValue("Exception", "Exception('Plugin function failed')"),
                 returnData)
      ELSE Reply("call_plugin_function", "return", returnData, returnData)

\* POST /api/plugins/{plugin}/call/{function}.  Without a body, line 131
\* builds a PluginCallData without its required fields args and kwargs,
\* which raises before the backend is called.
call_plugin_function(has_body, returnData) ==
    /\ Served
    /\ web_reply' =
         IF has_body THEN call_result(returnData)
         ELSE Reply("call_plugin_function", "raise",
                    PyValue("ValidationError", "ValidationError(args, kwargs)"),
                    PyValue("not called", ""))
    /\ UNCHANGED variables

(***************************************************************************)
(* src/helpers.py: Autoplace                                               *)
(***************************************************************************)
\* calls of Autoplace
MaxAutoplaceCalls == 4

Parents == { "generalFrame", "otherFrame" }
Columns == { 0, 1 }
RowArguments == { 0, 7 }

\* lines 14-16, before the first call
InitAutoplace ==
    /\ lastRow = 0
    /\ lastParent = None
    /\ defaultAutoplaceColumn = 0
    /\ ap_calls = 0
    /\ ap_ret = [ parent |-> None, row |-> 0, column |-> 0, value |-> 0 ]

Autoplace_takes_row(g, parent, row, column) ==
    IF g.lastParent # parent
      THEN [ lastRow |-> 0, defaultAutoplaceColumn |-> 0, lastParent |-> parent ]
      ELSE IF column = g.defaultAutoplaceColumn
             THEN [ g EXCEPT !.lastRow = row + 1 ]
             ELSE g

\* lines 32-38: the globals after Autoplace(parent, row, column)
Autoplace_globals(g, parent, row, column) ==
    IF g.lastParent # parent
      THEN [ lastRow |-> 0, defaultAutoplaceColumn |-> 0, lastParent |-> parent ]
      ELSE IF column = g.defaultAutoplaceColumn
             THEN [ g EXCEPT !.lastRow = @ + 1 ]
             ELSE g

\* Autoplace(parent, row, column); line 40 returns lastRow
Autoplace(parent, row, column) ==
    /\ ap_calls < MaxAutoplaceCalls
    /\ ap_calls' = ap_calls + 1
    /\ LET g == Autoplace_globals(
                  [ lastRow |-> lastRow, lastParent |-> lastParent,
                    defaultAutoplaceColumn |-> defaultAutoplaceColumn ],
                  parent, row, column)
       IN  /\ lastRow' = g.lastRow
           /\ lastParent' = g.lastParent
           /\ defaultAutoplaceColumn' = g.defaultAutoplaceColumn
           /\ ap_ret' = [ parent |-> parent, row |-> row, column |-> column,
                          value |-> g.lastRow ]
    /\ UNCHANGED << hostVars, ccVars, webVars, tmVars >>

\* a plugin sets helpers.defaultAutoplaceColumn (line 17)
SetDefaultAutoplaceColumn(column) ==
    /\ ap_calls < MaxAutoplaceCalls
    /\ defaultAutoplaceColumn # column
    /\ defaultAutoplaceColumn' = column
    /\ UNCHANGED << hostVars, ccVars, webVars, tmVars, lastRow, lastParent,
                    ap_calls, ap_ret >>

(***************************************************************************)
(* src/helpers.py: RunEvery and RunIn.  Durations are in ticks of h_now.   *)
(***************************************************************************)
\* the last tick of h_now
MaxHelperTime == 4
\* calls of the function RunEvery was given
MaxFunctionCalls == 3

Durations == { 0, 1, 2 }

NoThread == [ pc |-> "none" ]

\* before RunEvery and RunIn are called; line 418: runners = []
InitTimers ==
    /\ h_now = 0
    /\ runners = << >>
    /\ run_in = NoThread
    /\ run_every = NoThread

\* time passes
TickHelpers ==
    /\ h_now < MaxHelperTime
    /\ h_now' = h_now + 1
    /\ UNCHANGED << hostVars, ccVars, webVars, apVars, runners, run_in, run_every >>

\* lines 408-416: RunEvery(duration, function) starts the daemon thread,
\* which begins with a call of the function
RunEvery(duration) ==
    /\ run_every = NoThread
    /\ run_every' = [ pc |-> "call", duration |-> duration, calls |-> 0,
                      returned_at |-> h_now, called_at |-> h_now,
                      waited |-> TRUE ]
    /\ UNCHANGED << hostVars, ccVars, webVars, apVars, h_now, runners, run_in >>

\* line 410: function(*args, **kwargs); an exception leaves wrapper() and
\* ends the thread
RunEveryCall(outcome) ==
    /\ run_every.pc = "call"
    /\ run_every.calls < MaxFunctionCalls
    /\ run_every' =
         [ run_every EXCEPT
             !.pc = IF outcome = "raise" THEN "dead" ELSE "sleep",
             !.calls = @ + 1,
             !.called_at = h_now,
             !.waited = run_every.calls = 0
                          \/ h_now >= run_every.returned_at + run_every.duration,
             !.returned_at = h_now ]
    /\ UNCHANGED << hostVars, ccVars, webVars, apVars, h_now, runners, run_in >>

\* line 411: time.sleep(duration) returns, not before duration has passed
RunEverySleep ==
    /\ run_every.pc = "sleep"
    /\ h_now >= run_every.returned_at + run_every.duration
    /\ run_every' = [ run_every EXCEPT !.pc = "call" ]
    /\ UNCHANGED << hostVars, ccVars, webVars, apVars, h_now, runners, run_in >>

RunIn_wakes_at_once(started, duration) == started

\* line 428: the earliest time time.sleep(duration) returns
RunIn_wakes(started, duration) == started + duration

\* lines 426-437: RunIn(duration, function, mainThread)
RunIn(duration, mainThread) ==
    /\ run_in = NoThread
    /\ run_in' = [ pc |-> IF mainThread THEN "queued" ELSE "sleep",
                   mainThread |-> mainThread, duration |-> duration,
                   started |-> h_now, returned_at |-> h_now,
                   calls |-> 0, called_at |-> 0 ]
    /\ runners' = IF mainThread
                    THEN Append(runners,
                                [ duration |-> duration, function |-> "function",
                                  created |-> h_now, args |-> << >>,
                                  kwargs |-> << >> ])
                    ELSE runners
    /\ UNCHANGED << hostVars, ccVars, webVars, apVars, h_now, run_every >>

\* lines 428-429: time.sleep(duration) has returned and the function is
\* called; the thread ends with it, whether it returns or raises
RunInCall(outcome) ==
    /\ run_in.pc = "sleep"
    /\ h_now >= RunIn_wakes(run_in.started, run_in.duration)
    /\ run_in' = [ run_in EXCEPT !.pc = IF outcome = "raise" THEN "raised" ELSE "done",
                                 !.calls = @ + 1,
                                 !.called_at = h_now ]
    /\ UNCHANGED << hostVars, ccVars, webVars, apVars, h_now, runners, run_every >>

\* the web server, Autoplace and the timers before anything has used them
InitRest == InitWeb /\ InitAutoplace /\ InitTimers

Init == InitHost /\ InitCC /\ cc_settings = DefaultSettings /\ InitRest

\* the main thread: start-up, the main loop, and the supervisor's replies to
\* the blocking calls run() makes
NextMain ==
    \/ EnsureFunctions
    \/ \E o \in { "ok", "raise" } : LoadModules(o)
    \/ StartThreads
    \/ \E o \in { "ok", "raise" } : Imports(o)
    \/ \E o \in HookOutcomes : Hook(o)
    \/ MainBefore
    \/ \E op \in { "notify", "ask", "dialog" } : MainImmediatePut(op)
    \/ MainImmediateGet
    \/ \E o \in { "data", "None", "raise" } : MainRunReturn(o)
    \/ MainAfterPut
    \/ MainAfterSleep
    \/ MainAfterAppend
    \/ Tick
    \/ SupReplyImmediate

\* the helper threads once __init__ has started them, and the supervisor's
\* requests to them
NextThreads ==
    \/ EnsureFunctions
    \/ \E o \in { "ok", "raise" } : LoadModules(o)
    \/ StartThreads
    \/ SupPutSettingsMenu
    \/ \E k \in FrontendKinds : SupPutFrontend(k)
    \/ SupPutPerformance
    \/ \E o \in { "ok", "raise" } : SettingsMenuStep(o)
    \/ FrontendGet
    \/ FrontendTaskDone
    \/ FrontendPut
    \/ PerformanceFilter
    \/ PerformanceStore
    \/ PerformancePut

\* the main loop and performance_thread of an ordinary plugin, with a clock
\* that gets past the window
NextPerformance ==
    \/ MainBefore
    \/ \E o \in { "data", "raise" } : MainRunReturn(o)
    \/ MainAfterPut
    \/ MainAfterSleep
    \/ MainAfterAppend
    \/ Tick
    \/ \E d \in PauseLengths : Pause(d)
    \/ SupPutPerformance
    \/ PerformanceFilter
    \/ PerformanceStore
    \/ PerformancePut

\* the CruiseControl plugin
NextCC ==
    \/ \E st \in SettingsChoices : UpdateSettings(st)
    \/ \E d \in FrameChoices, dt \in FrameGaps : Frame(d, dt)

\* the web server
NextWeb ==
    \/ quitApp
    \/ restartApp
    \/ \E name \in OtherEndpoints : OtherEndpoint(name)
    \/ \E b \in BOOLEAN, v \in ReturnValues : call_plugin_function(b, v)

\* Autoplace and its callers
NextAutoplace ==
    \/ \E p \in Parents, r \in RowArguments, c \in Columns : Autoplace(p, r, c)
    \/ \E c \in Columns : SetDefaultAutoplaceColumn(c)

\* RunEvery, RunIn and their threads
NextTimers ==
    \/ TickHelpers
    \/ \E d \in Durations : RunEvery(d)
    \/ \E o \in { "ok", "raise" } : RunEveryCall(o)
    \/ RunEverySleep
    \/ \E d \in Durations, m \in BOOLEAN : RunIn(d, m)
    \/ \E o \in { "ok", "raise" } : RunInCall(o)

\* PluginRunner.__init__ from its try statement on
NextRunner ==
    \/ \E o \in { "ok", "ImportError", "no Plugin" } : ImportModule(o)
    \/ NextMain

Next ==
    \/ NextRunner \/ NextThreads \/ NextPerformance
    \/ NextCC \/ NextWeb \/ NextAutoplace \/ NextTimers

\* everything
Spec == Init /\ [][Next]_vars

\* the main thread alone (the helper threads are started and left alone)
SpecMain == Init /\ [][NextMain]_vars

\* the helper threads alone (the main thread does not get past imports())
SpecThreads == Init /\ [][NextThreads]_vars

\* PluginRunner.__init__ is about to import the plugin module
InitRunner ==
    /\ InitProcess /\ main_pc = "import_module"
    /\ InitCC /\ cc_settings = DefaultSettings /\ InitRest

\* the main thread from the import of the plugin module on
SpecRunner == InitRunner /\ [][NextRunner]_vars

\* a plugin class that passes ensure_functions and has a settings menu
OrdinaryClass ==
    [ overrides_before |-> FALSE, overrides_after |-> FALSE,
      overrides_plugin |-> FALSE, has_run |-> TRUE, has_imports |-> TRUE,
      named_Plugin |-> TRUE, has_settings_menu |-> TRUE ]

\* an ordinary plugin process in which CruiseControl has been enabled
InitCruiseControl == InitHost /\ cls = OrdinaryClass /\ InitCC /\ InitRest

\* the CruiseControl plugin alone
SpecCC == InitCruiseControl /\ [][NextCC]_vars

\* an ordinary plugin process with the default CruiseControl settings
InitOrdinary == Init /\ cls = OrdinaryClass

\* an ordinary plugin whose __init__ has started the threads, called
\* imports() and the three hooks without a failure, and is about to enter
\* the main loop
InitLoop ==
    /\ cls = OrdinaryClass
    /\ main_pc = "before"
    /\ imports_called = TRUE
    /\ hooks_called = HookNames
    /\ sm_pc = "get"
    /\ fe_pc = "get"
    /\ pf_pc = "get"
    /\ InitIdle
    /\ InitCC /\ cc_settings = DefaultSettings /\ InitRest

\* the main loop and performance_thread of an ordinary plugin
SpecPerformance == InitLoop /\ [][NextPerformance]_vars

\* the web server alone
SpecWeb == InitOrdinary /\ [][NextWeb]_vars

\* Autoplace alone
SpecAutoplace == InitOrdinary /\ [][NextAutoplace]_vars

\* RunEvery and RunIn alone
SpecTimers == InitOrdinary /\ [][NextTimers]_vars

(***************************************************************************)
(* Claims about the plugin process.                                        *)
(***************************************************************************)
\* frontend requests taken off frontend_queue so far
FrontendTaken == sent.frontend - Len(frontend_queue)

\* C1: frontend_thread answers one-for-one and in request order: whenever it
\* is back at get() there are as many replies (all None) as requests taken
\* and as many task_done calls; while a request is being handled the reply
\* count is one short, task_done comes before the put; and whatever the
\* message asked for (a call that returns, raises, names a missing target,
\* no or an unknown operation) the thread is never ended by an exception.
C1_FrontendOneForOne ==
    /\ fe_pc # "dead"
    /\ \A i \in 1..Len(frontend_return_queue) : frontend_return_queue[i] = None
    /\ fe_pc \in { "unstarted", "get" } =>
         /\ Len(frontend_return_queue) = FrontendTaken
         /\ unfinished.frontend = Len(frontend_queue)
    /\ fe_pc = "task_done" =>
         /\ fe_data.id = FrontendTaken
         /\ Len(frontend_return_queue) = FrontendTaken - 1
         /\ unfinished.frontend = Len(frontend_queue) + 1
    /\ fe_pc = "put" =>
         /\ fe_data.id = FrontendTaken
         /\ Len(frontend_return_queue) = FrontendTaken - 1
         /\ unfinished.frontend = Len(frontend_queue)
    /\ fe_pc = "hung" => fe_data.kind = "hang"

\* the second request, whose target raised, has been answered like the first
C1_Witness ==
    /\ fe_pc = "get"
    /\ fe_data = [ id |-> 2, kind |-> "raise" ]
    /\ frontend_return_queue = << None, None >>
    /\ unfinished.frontend = 0

\* C2: once a function called by frontend_thread hangs, the thread stays
\* hung, puts no reply and takes no further frontend request, while the
\* settings-menu thread (of a plugin with a settings menu) and the
\* performance thread stay in their loops, able to answer their requests.
C2_HungBlocksOnlyOwnQueue ==
    [][ fe_pc = "hung" =>
          /\ fe_pc' = "hung"
          /\ frontend_return_queue' = frontend_return_queue
          /\ Len(frontend_queue') >= Len(frontend_queue)
          /\ (has_menu(cls) => sm_pc' = "get")
          /\ pf_pc' \in PerformanceLoop ]_vars

\* C3: with a settings menu, every request taken off settings_menu_queue has
\* exactly one render() result on settings_menu_return_queue, in request
\* order, and the thread is back at get() for the requests that follow,
\* also after a render() that failed.
C3_EverySettingsRequestAnswered ==
    (has_menu(cls) /\ sm_pc # "unstarted") =>
        /\ sm_pc = "get"
        /\ Len(settings_menu_return_queue) = sent.settings_menu - Len(settings_menu_queue)
        /\ \A i \in 1..Len(settings_menu_return_queue) :
              settings_menu_return_queue[i] = [ render |-> i ]

\* C4: notify, ask and dialog put exactly one request when they are called
\* and none while they wait; they return only by taking one reply off
\* immediate_return_queue; while there is no reply the main thread stays in
\* the call, run() is not called again and return_queue gets nothing.
C4_ImmediateCallBlocks ==
    [][ /\ (main_pc = "run" /\ main_pc' = "immediate_get") =>
              /\ Len(immediate_queue') = Len(immediate_queue) + 1
              /\ immediate_queue'[Len(immediate_queue')].operation = imm_op'
        /\ main_pc = "immediate_get" =>
              /\ Len(immediate_queue') <= Len(immediate_queue)
              /\ run_count' = run_count
              /\ return_queue' = return_queue
        /\ (main_pc = "immediate_get" /\ main_pc' # "immediate_get") =>
              /\ Len(immediate_return_queue) >= 1
              /\ immediate_return_queue' = Tail(immediate_return_queue)
        /\ (main_pc = "immediate_get" /\ immediate_return_queue = << >>) =>
              main_pc' = "immediate_get" ]_vars

\* run() is blocked in ask(): the request is out, no reply has come, time
\* has passed
C4_Witness ==
    /\ main_pc = "immediate_get"
    /\ imm_op = "ask"
    /\ immediate_queue = << [ operation |-> "ask" ] >>
    /\ immediate_return_queue = << >>
    /\ now > start_time

\* C5: an iteration of the main loop starts (before()) no sooner than
\* 1/fps_cap after the previous one started, whatever run() and the
\* return_queue put took.
C5_FpsCap ==
    [][ (main_pc = "before" /\ main_pc' = "run" /\ run_count >= 1) =>
            start_time' - start_time >= FramePeriod ]_vars

\* the second iteration has started after a first one that was shorter than
\* the period and was put to sleep
C5_Witness ==
    /\ main_pc = "run"
    /\ run_count = 2
    /\ end_time < wake_time
    /\ Len(performance) = 1
    /\ start_time >= performance[1][1] + FramePeriod

\* the classes C6 is about
Rejected(c) ==
    \/ c.overrides_before \/ c.overrides_after \/ c.overrides_plugin
    \/ ~c.has_run \/ ~c.has_imports \/ ~c.named_Plugin

TypeErrors ==
    { "TypeError: 'before' is a reserved function name",
      "TypeError: 'after' is a reserved function name",
      "TypeError: 'plugin' is a reserved function name",
      "TypeError: Your plugin has to have a 'run' function.",
      "TypeError: Your plugin has to have an 'imports' function.",
      "TypeError: Please make sure the class is named 'Plugin'" }

\* C6: a class that overrides before, after or plugin, lacks run or imports
\* or is not named Plugin never gets past ensure_functions: it ends with a
\* TypeError (logged by the runner) while no helper thread has been
\* started, imports() and the init hooks have not been called and run() has
\* not been called.
C6_RejectedBeforeAnythingRuns ==
    Rejected(cls) =>
        /\ main_pc \in { "ensure_functions", "returned" }
        /\ main_pc = "returned" =>
              /\ Len(log) = 1
              /\ log[1].exc \in TypeErrors
        /\ sm_pc = "unstarted" /\ fe_pc = "unstarted" /\ pf_pc = "unstarted"
        /\ ~imports_called
        /\ hooks_called = << >>
        /\ run_count = 0

\* a class that is fine but for its name has been rejected
C6_Witness ==
    /\ cls = [ overrides_before |-> FALSE, overrides_after |-> FALSE,
               overrides_plugin |-> FALSE, has_run |-> TRUE,
               has_imports |-> TRUE, named_Plugin |-> FALSE,
               has_settings_menu |-> TRUE ]
    /\ main_pc = "returned"
    /\ log[1].exc = "TypeError: Please make sure the class is named 'Plugin'"

(***************************************************************************)
(* Claims about the CruiseControl plugin.                                  *)
(***************************************************************************)
\* the keys plugin() writes to data["sdk"], lines 267-322
SdkKeys ==
    { "acceleration", "brake", "CruiseControl", "CruiseControlIncrease",
      "CruiseControlDecrease" }

\* the sdk output of the last call has key k with value v
SdkHas(k, v) == k \in DOMAIN cc_out.ret.sdk /\ cc_out.ret.sdk[k] = v

C8_RedLightBrakes ==
    ( /\ cc_frames > 0
      /\ cc_settings.stop_trafficlight
      /\ cc_settings.trafficlightdetectionisenabled
      /\ cc_out.locals.trafficlight = "Red"
      /\ ~cc_out.locals.gamepaused
      /\ cc_out.locals.steering
      /\ cc_out.locals.speed > Tenths(1)
      /\ ~cc_out.locals.user_accelerating )
    => /\ SdkHas("acceleration", 0)
       /\ SdkHas("brake", cc_settings.brake_strength)

\* C9: in a frame in which steering is disabled or the game is paused, the
\* sdk output has acceleration 0 and brake 0 and none of CruiseControl,
\* CruiseControlIncrease and CruiseControlDecrease, whatever the earlier
\* frames have latched.
C9_NotDrivenWithoutSteering ==
    ( /\ cc_frames > 0
      /\ ~cc_out.locals.steering \/ cc_out.locals.gamepaused )
    => /\ SdkHas("acceleration", 0)
       /\ SdkHas("brake", 0)
       /\ DOMAIN cc_out.ret.sdk \subseteq { "acceleration", "brake" }

\* the last call has just asked for the hazard light: it has set
\* wait_for_response_hazard_light and started its timer
HazardRequested ==
    /\ cc_frames > 0
    /\ cc.wait_for_response_hazard_light
    /\ cc.wait_for_response_hazard_light_timer = cc_now

\* C10: in a frame in which the hazard light is off and the plugin asks for
\* it, because auto_hazard is on and user emergency braking is detected, or
\* because auto_stop is on and the lane-lost stop is active, the sdk output
\* holds a hazard-light command: a key other than the acceleration, brake
\* and cruise-control keys.
C10_HazardCommandWritten ==
    ( /\ HazardRequested
      /\ ~cc_out.locals.hazard_light
      /\ \/ cc_settings.auto_hazard /\ cc.user_emergency_braking
         \/ cc_settings.auto_stop /\ cc.do_lanedetected_stop )
    => \E k \in DOMAIN cc_out.ret.sdk : k \notin SdkKeys

\* a step that is a call of plugin(data)
IsFrame == cc_frames' = cc_frames + 1

\* the lane was detected in the last call and is not in this one, while the
\* game runs, steering is enabled and the user is not accelerating
LaneJustLost ==
    /\ cc_frames >= 1
    /\ cc_out.locals.lanedetected
    /\ ~cc_out'.locals.lanedetected
    /\ ~cc_out'.locals.gamepaused
    /\ cc_out'.locals.steering
    /\ ~cc_out'.locals.user_accelerating

\* C11: with auto_stop on, a call in which the lane has just been lost sets
\* do_lanedetected_stop, whether or not the calls have an image to draw on
\* and whatever show_symbols is; once set it stays set through every call
\* in which the user does not accelerate; and every call that leaves it set
\* at a speed above 1 km/h returns the sdk brake 0.1.
C11_LaneLostStops ==
    [][ (IsFrame /\ cc_settings.auto_stop) =>
          /\ LaneJustLost => cc'.do_lanedetected_stop
          /\ (cc.do_lanedetected_stop /\ ~cc_out'.locals.user_accelerating)
                => cc'.do_lanedetected_stop
          /\ (cc'.do_lanedetected_stop /\ cc_out'.locals.speed > Tenths(1))
                => /\ "brake" \in DOMAIN cc_out'.ret.sdk
                   /\ cc_out'.ret.sdk["brake"] = 10 ]_vars

\* the conditions of line 265 and line 266, as the last call found them
CruiseControlAvailable ==
    /\ ~cc_out.locals.gamepaused
    /\ cc_out.locals.steering
    /\ cc_settings.auto_enable
    /\ cc_out.locals.speed > Tenths(30)
    /\ cc_out.locals.cruisecontrolspeed = 0
    /\ cc_out.locals.targetspeed # 0
    /\ ~cc_out.locals.at_control.wait_for_response

\* C12: a call writes CruiseControl = True to the sdk exactly when the game
\* is not paused, steering is enabled, auto_enable is on, speed > 30, the
\* reported cruise control speed is 0, the target speed is not 0 and no
\* command awaits a response; the same call then returns acceleration 0 and
\* leaves trafficlight_allow_acceleration False.
C12_CruiseControlEnabledWhenAvailable ==
    cc_frames > 0 =>
        /\ SdkHas("CruiseControl", TRUE) <=> CruiseControlAvailable
        /\ SdkHas("CruiseControl", TRUE) =>
              /\ SdkHas("acceleration", 0)
              /\ ~cc.trafficlight_allow_acceleration

\* cruise control has been enabled a second time, the first command having
\* timed out
C12_Witness ==
    /\ cc_frames >= 2
    /\ SdkHas("CruiseControl", TRUE)
    /\ SdkHas("acceleration", 0)
    /\ cc.wait_for_response_timer = cc_now
    /\ cc_now > StartTime + Seconds(1)

\* the last call braked the truck for a red light (lines 285-287)
BrakedForRed ==
    /\ cc_frames >= 1
    /\ cc_out.locals.trafficlight = "Red"
    /\ cc_out.locals.targetspeed = 0
    /\ SdkHas("acceleration", 0)
    /\ SdkHas("brake", cc_settings.brake_strength)

\* C13: with stop_trafficlight and trafficlight_accelerate on and
\* auto_accelerate off, the call that follows one in which the plugin
\* braked for a red light, and in which the light is no longer treated as
\* red (the target speed is not 0), the game runs, steering is enabled,
\* speed < 30, the cruise control speed is 0 and neither user emergency
\* braking nor the lane-lost stop is active, returns acceleration =
\* acceleration strength and brake = 0, at whatever speed the truck met the
\* red light.
C13_AcceleratesAfterRed ==
    [][ ( /\ IsFrame
          /\ cc_settings.stop_trafficlight
          /\ cc_settings.trafficlight_accelerate
          /\ ~cc_settings.auto_accelerate
          /\ BrakedForRed
          /\ cc_out'.locals.targetspeed # 0
          /\ ~cc_out'.locals.gamepaused
          /\ cc_out'.locals.steering
          /\ cc_out'.locals.speed < Tenths(30)
          /\ cc_out'.locals.cruisecontrolspeed = 0
          /\ ~cc_out'.locals.at_control.user_emergency_braking
          /\ ~cc'.user_emergency_braking
          /\ ~cc'.do_lanedetected_stop )
        => /\ "acceleration" \in DOMAIN cc_out'.ret.sdk
           /\ cc_out'.ret.sdk["acceleration"] = cc_settings.acceleration_strength
           /\ "brake" \in DOMAIN cc_out'.ret.sdk
           /\ cc_out'.ret.sdk["brake"] = 0 ]_vars

(***************************************************************************)
(* Claims about the web server.                                            *)
(***************************************************************************)
\* C14: whenever call_plugin_function has called the backend, it ends with
\* an error exactly if backend.CallPluginFunction returned False or None,
\* and otherwise (numbers and empty results included) returns the value the
\* backend returned.
C14_FailsExactlyWhenPluginFailed ==
    ( /\ web_reply.endpoint = "call_plugin_function"
      /\ web_reply.returnData \in ReturnValues )
    => IF web_reply.returnData \in { PyFalse, PyNone }
         THEN web_reply.ends = "raise"
         ELSE /\ web_reply.ends = "return"
              /\ web_reply.value = web_reply.returnData

\* a step that serves the request of the given endpoint
Serves(endpoint) ==
    /\ web_requests' = web_requests + 1
    /\ web_reply'.endpoint = endpoint

\* C15: quitApp sets CLOSE and leaves RESTART alone, restartApp sets RESTART
\* and leaves CLOSE alone, both return {"status": "ok"}, a second call
\* changes neither flag, and no request ever lowers a flag that is raised.
C15_LifecycleOnlyRaisesFlags ==
    [][ /\ Serves("quitApp") =>
              /\ variables'.CLOSE
              /\ variables'.RESTART = variables.RESTART
              /\ web_reply'.ends = "return" /\ web_reply'.value = StatusOk
        /\ Serves("restartApp") =>
              /\ variables'.RESTART
              /\ variables'.CLOSE = variables.CLOSE
              /\ web_reply'.ends = "return" /\ web_reply'.value = StatusOk
        /\ variables.CLOSE => variables'.CLOSE
        /\ variables.RESTART => variables'.RESTART ]_vars

\* quitApp has been called a second time, after restartApp
C15_Witness ==
    /\ web_requests = 3
    /\ web_reply.endpoint = "quitApp"
    /\ variables = [ CLOSE |-> TRUE, RESTART |-> TRUE ]

(***************************************************************************)
(* Claims about the helpers.                                               *)
(***************************************************************************)
\* C16: a call of Autoplace for a parent other than the last call's returns
\* 0 and sets defaultAutoplaceColumn to 0; a call for the same parent
\* returns the row returned before plus 1 if its column is
\* defaultAutoplaceColumn, and the row returned before otherwise; the row
\* argument has no part in it.
C16_AutoplaceRow ==
    [][ ap_calls' = ap_calls + 1 =>
          /\ ap_ret'.value = lastRow'
          /\ IF ap_ret'.parent # lastParent
               THEN /\ ap_ret'.value = 0
                    /\ defaultAutoplaceColumn' = 0
               ELSE /\ ap_ret'.value =
                         IF ap_ret'.column = defaultAutoplaceColumn
                           THEN ap_ret.value + 1 ELSE ap_ret.value
                    /\ defaultAutoplaceColumn' = defaultAutoplaceColumn ]_vars

\* the third call for a parent, with a row argument of 7, has returned row 2
C16_Witness ==
    /\ ap_calls = 3
    /\ ap_ret.row = 7
    /\ ap_ret.value = 2

\* C17: RunIn returns without waiting.  With mainThread False the function
\* is called at most once, never before duration has passed since RunIn was
\* called, the thread ends with that one call, and nothing is appended to
\* runners; with mainThread True the function is not called and runners
\* gets exactly one entry [duration, function, creation time, args, kwargs].
C17_RunInOnceAfterDuration ==
    run_in.pc # "none" =>
        /\ run_in.returned_at = run_in.started
        /\ IF run_in.mainThread
             THEN /\ run_in.calls = 0
                  /\ runners = << [ duration |-> run_in.duration,
                                    function |-> "function",
                                    created |-> run_in.started,
                                    args |-> << >>, kwargs |-> << >> ] >>
             ELSE /\ runners = << >>
                  /\ run_in.calls <= 1
                  /\ run_in.calls = 1 <=> run_in.pc \in { "done", "raised" }
                  /\ run_in.calls = 1 =>
                        run_in.called_at >= run_in.started + run_in.duration

\* the function has been called, 2 ticks after a RunIn with duration 2
C17_Witness ==
    /\ run_in.pc = "done"
    /\ run_in.duration = 2
    /\ run_in.calls = 1
    /\ run_in.called_at = run_in.started + 2

\* C18: once RunEvery has returned, its thread calls the function first,
\* without a delay, calls it again no sooner than duration after the last
\* call returned, and goes on doing so after a call has raised: the thread
\* is always either calling the function or sleeping.
C18_RunEveryKeepsRunning ==
    run_every.pc # "none" =>
        /\ run_every.pc \in { "call", "sleep" }
        /\ run_every.calls = 0 => run_every.pc = "call"
        /\ run_every.waited

(***************************************************************************)
(* Claims about the CruiseControl plugin, continued                        *)
(***************************************************************************)
\* the cruise-control commands a call has written into data["sdk"]
CommandsSet(out) ==
    { "CruiseControl", "CruiseControlIncrease", "CruiseControlDecrease" }
        \cap DOMAIN out.ret.sdk

\* C19: a call of plugin() sets at most one of CruiseControl,
\* CruiseControlIncrease and CruiseControlDecrease, and the call after one
\* that set a command sets none unless the reported cruise control speed
\* differs from that of the previous call or more than 1 second has passed
\* since the command, whether or not a call returns early for want of an
\* image.
C19_CommandsDebounced ==
    [][ IsFrame =>
          /\ Cardinality(CommandsSet(cc_out')) <= 1
          /\ CommandsSet(cc_out) # { } /\ CommandsSet(cc_out') # { } =>
                \/ cc_out'.locals.cruisecontrolspeed
                       # cc_out.locals.cruisecontrolspeed
                \/ cc_now' - cc_now > Seconds(1) ]_vars

\* a call wrote a non-zero acceleration into data["sdk"]
Accelerated(out) ==
    "acceleration" \in DOMAIN out.ret.sdk /\ out.ret.sdk["acceleration"] # 0

\* C20: user_emergency_braking is a latch that blocks automatic throttle.
\* It becomes true only in a call with userBrake > 0.9, speed > 30 and
\* steering enabled; once true it is still true after the next call unless
\* in that call speed > 5 and speed is higher than in the call before, or
\* the telemetry cannot be read, or (auto_hazard on) the plugin has braked
\* within the last second, where the time of the plugin's braking changes
\* only in a call that writes a brake; and a call that reaches its control
\* step with the latch true writes no non-zero acceleration.
C20_EmergencyBrakingLatch ==
    [][ IsFrame =>
          /\ ~cc.user_emergency_braking /\ cc'.user_emergency_braking =>
                /\ "api" \in cc_in'.keys
                /\ cc_in'.userBrake > 90
                /\ cc_out'.locals.speed > Tenths(30)
                /\ cc_out'.locals.steering
          /\ cc.user_emergency_braking /\ ~cc'.user_emergency_braking =>
                \/ /\ cc_out'.locals.speed > Tenths(5)
                   /\ cc_out'.locals.speed > cc_out.locals.speed
                \/ "api" \notin cc_in'.keys
                \/ /\ cc_settings.auto_hazard
                   /\ cc_now' - Seconds(1) < cc'.user_emergency_braking_timer
          /\ cc'.user_emergency_braking_timer # cc.user_emergency_braking_timer =>
                /\ cc'.user_emergency_braking_timer = cc_now'
                /\ "brake" \in DOMAIN cc_out'.ret.sdk
                /\ cc_out'.ret.sdk["brake"] > 0
          /\ cc_out'.locals.at_control.user_emergency_braking =>
                ~Accelerated(cc_out') ]_vars

\* with auto_accelerate on, a call at 18 km/h with cruise control off, that
\* would otherwise accelerate, has found the latch set and left it set
C20_Witness ==
    /\ cc_settings.auto_accelerate
    /\ cc_out.locals.at_control.user_emergency_braking
    /\ cc.user_emergency_braking
    /\ cc_in.userBrake = 0
    /\ cc_out.locals.speed = Kmh(5)
    /\ cc_out.locals.cruisecontrolspeed = 0
    /\ cc_out.locals.targetspeed # 0
    /\ cc_out.locals.steering /\ ~cc_out.locals.gamepaused
    /\ ~Accelerated(cc_out)

LoopOrder ==
    { << "before", "run" >>, << "run", "immediate_get" >>,
      << "immediate_get", "run" >>, << "run", "after" >>,
      << "run", "returned" >>, << "after", "end_time" >>,
      << "end_time", "sleep" >>, << "sleep", "before" >> }

\* C24: an iteration of the main loop is before(), run(), after(), in this
\* order; return_queue changes only in after(), where the result of this
\* iteration's run() is appended if it is not None and nothing is put if it
\* is None; the put comes before the fps-cap sleep of the iteration begins.
C24_ResultsPutInOrder ==
    [][ /\ (main_pc \in LoopStates /\ main_pc' # main_pc) =>
              << main_pc, main_pc' >> \in LoopOrder
        /\ (main_pc = "before" /\ main_pc' = "run") =>
              run_count' = run_count + 1 /\ start_time' = now
        /\ IF main_pc = "run" /\ main_pc' = "after"
             THEN data' \in { NoData, [ iter |-> run_count ] }
             ELSE data' = data
        /\ IF main_pc = "after" /\ main_pc' = "end_time"
             THEN return_queue' = IF data = NoData THEN return_queue
                                  ELSE return_queue \o << data >>
             ELSE return_queue' = return_queue
        /\ wake_time' # wake_time => main_pc = "end_time" ]_vars

\* the first run() returned None, the second a value, which is on the
\* queue while the second iteration sleeps
C24_Witness ==
    /\ main_pc = "sleep"
    /\ now < wake_time
    /\ run_count = 2
    /\ return_queue = << [ iter |-> 2 ] >>

\* the failures C23 names, as the runner logs them
ListedFailures ==
    { "ImportError in import_module", "ImportError: No class 'Plugin' found",
      "Exception in imports", "Exception in run" } \cup TypeErrors

\* C23: PluginRunner.__init__ returns only after it has caught and logged,
\* once, one of: an import error, a module without a class Plugin, a
\* TypeError of ensure_functions, an exception of imports(), an exception of
\* run(); a class that ensure_functions rejects makes it return; once it has
\* returned nothing is restarted: run() is not called again, return_queue
\* gets nothing and nothing more is logged.
C23_RunnerReturnsOnListedFailures ==
    [][ /\ main_pc' = "returned" =>
              /\ log' # << >>
              /\ log'[Len(log')].message = "Error loading plugin"
              /\ log'[Len(log')].exc \in ListedFailures
              /\ Cardinality({ i \in DOMAIN log' :
                                 log'[i].message = "Error loading plugin" }) = 1
        /\ (main_pc = "ensure_functions" /\ main_pc' # main_pc /\ Rejected(cls)) =>
              main_pc' = "returned"
        /\ main_pc = "returned" =>
              /\ main_pc' = "returned"
              /\ run_count' = run_count
              /\ return_queue' = return_queue
              /\ log' = log ]_vars

\* C21: every request taken off performance_queue gets exactly one reply;
\* the request is handled at the time last_30_seconds is computed from, and
\* the list stored by the thread and the reply are the samples recorded so
\* far whose start time is later than a window before that time, in
\* recording order; the main loop records one sample (start time, duration)
\* when an iteration completes, the duration covering the fps-cap sleep; and
\* the stored list changes in no other way.
C21_PerformanceReplies ==
    [][ /\ Len(performance_return_queue') + Len(performance_queue')
             + (IF pf_pc' \in { "store", "put" } THEN 1 ELSE 0) = sent'.performance
        /\ (pf_pc = "get" /\ pf_pc' = "store") =>
              pf_local'.last_30_seconds = now - WindowTicks
        /\ (pf_pc = "store" /\ pf_pc' = "put") =>
              performance' = SelectSamples(performance, pf_local.last_30_seconds)
        /\ (pf_pc = "put" /\ pf_pc' = "get") =>
              /\ performance_return_queue' = performance_return_queue \o
                   << SelectSamples(performance, pf_local.last_30_seconds) >>
              /\ performance' = performance
        /\ (main_pc = "sleep" /\ main_pc' = "before") =>
              /\ performance' = performance \o << << start_time, now - start_time >> >>
              /\ now - start_time >=
                   (end_time - start_time) + time_to_sleep(start_time, end_time)
        /\ performance' # performance =>
              \/ pf_pc = "store" /\ pf_pc' = "put"
              \/ main_pc = "sleep" /\ main_pc' = "before" ]_vars

====
